---- MODULE Spec2Model ----
(***************************************************************************)
(* ZmqClient of include/zmq_wrapper.hpp: the facade, the worker thread,    *)
(* the outbound queue and the transport the worker owns.                   *)
(*                                                                         *)
(* Threads: the worker (wpc), one facade thread that runs the constructor, *)
(* connect and syncStop (upc), and any number of other facade threads      *)
(* whose calls (send, setCallback, setFlushOnExit, stopServer) are single  *)
(* critical sections or single atomic stores.                              *)
(*                                                                         *)
(* Time: the present is 0 and every stored time_point is relative to it    *)
(* (<= 0); Tick lets Quantum milliseconds pass by moving every stored      *)
(* time_point back.  Time passes only while the worker is blocked          *)
(* (condition wait, receive, sleep) or gone; its other steps take none.    *)
(*                                                                         *)
(* The surroundings (how many payloads the producers enqueue, how many     *)
(* envelopes the peer sends, whether the transport fails on its own) are   *)
(* fixed by env when a run starts; the specifications at the end differ in *)
(* env and in which of the surroundings' actions they let happen.          *)
(***************************************************************************)
EXTENDS Integers, Sequences, FiniteSets, TLC

\* ---------------------------------------------------------------- bounds
MaxSend == 2            \* payloads the producers enqueue
MaxRecv == 2            \* envelopes the peer sends after the handshake
MaxWaitSend == 1        \* payloads enqueued while a thread is in waitForMessages
MaxWrites == 2          \* values written to one SerializerStream
MaxTicks == 4           \* time_points older than MaxTicks quanta are clipped

\* ------------------------------------------------------ program constants
ZMQ_PROTOCOL_VERSION == 1013
CLIENT_PING_INTERVAL == 1000
EXPORTER_TIMEOUT == CLIENT_PING_INTERVAL * 5
HEARBEAT_TIMEOUT == CLIENT_PING_INTERVAL * 2
MAX_CONSEQ_MESSAGES == 10
DATA_MSG == 0
EXPORTER_CONNECT_MSG == 1000
HEARTBEAT_CONNECT_MSG == 1001
RENDERER_CREATE_MSG == 2000
HEARTBEAT_CREATE_MSG == 2001
PING_MSG == 3000
PONG_MSG == 3001
STOP_MSG == 4000
TAIL_SNDTIMEO == 200            \* int wait = 200 of both teardown tails
SIZE_T_WIDTH == 8               \* sizeof(size_t), the platform word
INT_WIDTH == 4                  \* sizeof(int)
WAIT_MAX == 10000               \* waitForMessages' clamp of its timeout
STOP_GRACE == 200               \* syncStop's wait for serverStop to clear
OtherVersion == ZMQ_PROTOCOL_VERSION - 1

ClientType == {"Exporter", "Heartbeat"}

Quantum == CLIENT_PING_INTERVAL
Horizon == MaxTicks * Quantum
NoTime == Quantum               \* marks a time_point that holds no value (real ones are <= 0)
high_resolution_clock_now == Quantum - Quantum

Max(a, b) == IF a >= b THEN a ELSE b
Min(a, b) == IF a <= b THEN a ELSE b

\* ---------------------------------------------------------- control frame
\* sizeof(ControlFrame): three ints
FrameWidth == 3 * 4

\* ControlFrame::make: the message holding a frame of this version's protocol
make(type, ctrl) ==
    [size |-> FrameWidth, version |-> ZMQ_PROTOCOL_VERSION, type |-> type, control |-> ctrl]

\* ControlFrame(const zmq::message_t &): a message of another size decodes to
\* version -1 and leaves type and control unset
ControlFrame(msg) ==
    IF msg.size # FrameWidth
    THEN [version |-> -1, type |-> "unset", control |-> -1]
    ELSE [version |-> msg.version, type |-> msg.type, control |-> msg.control]

\* ControlFrame::operator bool
FrameOk(frame) == frame.version = ZMQ_PROTOCOL_VERSION

\* the message a failed (timed out) recv leaves behind: empty
EmptyMsg == [size |-> 0, version |-> 0, type |-> "unset", control |-> 0, id |-> 0]

\* a message of the peer, numbered in arrival order
Numbered(m, i) ==
    [size |-> m.size, version |-> m.version, type |-> m.type, control |-> m.control, id |-> i]

\* the first parts a peer can send
PeerMsgs ==
    [size : {FrameWidth}, version : {ZMQ_PROTOCOL_VERSION, OtherVersion},
     type : ClientType,
     control : {DATA_MSG, PING_MSG, PONG_MSG, RENDERER_CREATE_MSG, HEARTBEAT_CREATE_MSG}]
    \cup {[size |-> 4, version |-> ZMQ_PROTOCOL_VERSION, type |-> "Exporter", control |-> DATA_MSG]}

\* as many of them as the model distinguishes: a frame of another version is
\* dropped before its other fields are read
PeerFrames ==
    {m \in PeerMsgs : m.version = OtherVersion => m.control = DATA_MSG}

Callbacks == {"cbA", "cbB"}
NoCallback == "none"

VARIABLES
    env,            \* the surroundings: [sends, peer: how many; net: "reliable" or "faulty";
                    \* timed: time is followed (TRUE) or any delay may have passed (FALSE)]
    \* ---- ZmqClient members
    clientType, callback, callbackMutex, messageQue, messageMutex,
    startServing, isWorking, errorConnect, flushOnExit, serverStop,
    frontend,       \* "null", "open", "connected", "closed"
    sockopt,        \* the options of frontend (-1: the transport's default, no timeout)
    context,        \* "open", "term"
    \* ---- the constructor's locals shared with the worker, and the facade thread
    socketInit, upc, stopBegin,
    \* ---- the worker's position and locals
    wpc, c, revents, didWork, now, lastHBRecv, lastHBSend, inMsg,
    \* ---- the transport as the worker sees it
    pending,        \* an unread envelope is known to be there (POLLIN, or RCVMORE)
    rcvmore,        \* ZMQ_RCVMORE: the last part received has a part after it
    waited,         \* how long the worker has been in its current blocking call
    \* ---- history
    nEnq,           \* payloads enqueued so far: payload k is the k-th enqueued
    nRecv,          \* envelopes received in the steady state so far
    emitted,        \* payloads emitted as DATA envelopes, in emission order
    attempted,      \* payloads for which the send of a DATA envelope was started
    nPing,          \* PING envelopes emitted (counted up to 2)
    nStop,          \* STOP envelopes emitted (counted up to 2)
    stopRole,       \* role carried by the last STOP envelope
    hsResult,       \* how the handshake ended: "none", "error", "timeout", "rejected", "ok"
    hsReply,        \* the handshake reply the worker decoded (NoMsg when none)
    steady,         \* the worker has entered the steady loop
    delivered,      \* the DATA dispatches: [msg: the envelope, cb: the callback invoked or NoCallback]
    running,        \* the callback being run, NoCallback when none is
    lastRecvAt,     \* when the worker last received an envelope
    lastOutAt,      \* when the worker last emitted an envelope
    stopInSteady,   \* stopServer() was called while the worker was serving in STEADY
    ssMark,         \* payloads enqueued when syncStop() was called for a flush (-1: not called)
    connectOk,      \* connect() was called and did not fail
    framing,        \* the parts accepted so far: "ok" (whole envelopes), "dangling" (a control
                    \* frame with no part after it yet), "broken" (a part went out of place)
    \* ---- a thread in waitForMessages
    wfpc, waitBegin, wfTimeout, wfResult,
    \* ---- a SerializerStream (include/zmq_serializer.hpp)
    stream,         \* its bytes
    written,        \* the values written to it, in write order
    \* ---- a thread that asks for the length of the queue
    outstanding     \* what getOutstandingMessages returned last, -1 before the first call

members == <<env, clientType, callback, callbackMutex, messageQue, messageMutex,
             startServing, isWorking, errorConnect, flushOnExit, serverStop,
             frontend, sockopt, context>>
facade == <<socketInit, upc, stopBegin>>
locals == <<wpc, c, revents, didWork, now, lastHBRecv, lastHBSend, inMsg>>
transport == <<pending, rcvmore, waited>>
history == <<nEnq, nRecv, emitted, attempted, nPing, nStop, stopRole, hsResult, hsReply, steady,
             delivered, running, lastRecvAt, lastOutAt, stopInSteady, ssMark>>
audit == <<connectOk, framing>>
waiter == <<wfpc, waitBegin, wfTimeout, wfResult>>
serializer == <<stream, written>>
observer == <<outstanding>>
vars == <<members, facade, locals, transport, history, audit, waiter, serializer,
          observer>>

NoMsg == [size |-> 0, version |-> 0, type |-> "none", control |-> 0, id |-> 0]

\* ZmqClient::ZmqClient, the member initialisers and the locals
Construct ==
    /\ clientType \in ClientType
    /\ callback = NoCallback /\ callbackMutex = "free"
    /\ messageQue = <<>> /\ messageMutex = "free"
    /\ startServing = FALSE /\ isWorking = TRUE /\ errorConnect = FALSE
    /\ flushOnExit = FALSE /\ serverStop = FALSE
    /\ frontend = "null" /\ context = "open"
    /\ sockopt = [linger |-> -1, sndtimeo |-> -1, rcvtimeo |-> -1]
    /\ socketInit = FALSE /\ upc = "ctor" /\ stopBegin = NoTime
    /\ wpc = "unstarted" /\ c = 0 /\ revents = {} /\ didWork = FALSE
    /\ now = NoTime /\ lastHBRecv = NoTime /\ lastHBSend = NoTime /\ inMsg = NoMsg
    /\ pending = FALSE /\ rcvmore = FALSE /\ waited = 0
    /\ nEnq = 0 /\ nRecv = 0 /\ emitted = <<>> /\ attempted = {} /\ nPing = 0 /\ nStop = 0
    /\ stopRole = "none" /\ hsResult = "none" /\ hsReply = NoMsg /\ steady = FALSE
    /\ delivered = <<>> /\ running = NoCallback
    /\ lastRecvAt = NoTime /\ lastOutAt = NoTime /\ stopInSteady = FALSE /\ ssMark = -1
    /\ connectOk = FALSE /\ framing = "ok"
    /\ wfpc = "idle" /\ waitBegin = NoTime /\ wfTimeout = 0 /\ wfResult = "none"
    /\ stream = <<>> /\ written = <<>>
    /\ outstanding = -1

\* ------------------------------------------------------------ the transport
\* what a send on frontend can do: accept the part, refuse it (false, EAGAIN
\* after ZMQ_SNDTIMEO; the delay is not modelled) or throw zmq::error_t.
\* Once the context is terminated every call but close throws; a socket that
\* is not connected accepts nothing.
SendOutcomes ==
    IF context = "term" THEN {"throw"}
    ELSE IF frontend # "connected" THEN {"again"}
    ELSE IF env.net = "reliable" THEN {"ok"}
    ELSE {"ok", "again", "throw"}

\* poll, setsockopt, getsockopt: they work or throw
CallOutcomes ==
    IF context = "term" THEN {"throw"}
    ELSE IF env.net = "reliable" THEN {"ok"}
    ELSE {"ok", "throw"}

\* an envelope whose second part is sent whatever the first send returned
BothParts ==
    {<<o1, o2>> \in (SendOutcomes \X (SendOutcomes \cup {"skip"})) :
        (o1 = "throw") <=> (o2 = "skip")}

\* an envelope whose second part is sent only when the first was accepted
IfAccepted ==
    {<<o1, o2>> \in (SendOutcomes \X (SendOutcomes \cup {"skip"})) :
        (o1 # "ok") <=> (o2 = "skip")}

Thrown(o) == o[1] = "throw" \/ o[2] = "throw"
Accepted(o) == o[1] = "ok" /\ o[2] = "ok"

Count2(n) == Min(n + 1, 2)

\* the parts on the wire after an envelope's two sends: a control frame goes out
\* with ZMQ_SNDMORE and stays open until a part is accepted after it; a control
\* frame accepted while one is open, or a payload part accepted with none open,
\* is a part out of place
FramingAfter(f, o) ==
    LET a == IF o[1] # "ok" THEN f
             ELSE IF f = "ok" THEN "dangling"
             ELSE "broken"
    IN  IF o[2] # "ok" THEN a
        ELSE IF a = "dangling" THEN "ok"
        ELSE "broken"

\* ----------------------------------------------------------- worker: init
\* creating the socket and setting an option work, or throw when resources fail
InitOutcomes == IF env.net = "reliable" THEN {TRUE} ELSE BOOLEAN

\* workerThread, line 209: the socket is created
WorkerCreateSocket ==
    /\ wpc = "create"
    /\ \E ok \in InitOutcomes :
        IF ok
        THEN /\ frontend' = "open" /\ wpc' = "setopts" /\ UNCHANGED isWorking
        ELSE /\ isWorking' = FALSE /\ wpc' = "done" /\ UNCHANGED frontend
    /\ UNCHANGED <<env, clientType, callback, callbackMutex, messageQue, messageMutex,
                   startServing, errorConnect, flushOnExit, serverStop, sockopt, context>>
    /\ UNCHANGED <<facade, c, revents, didWork, now, lastHBRecv, lastHBSend, inMsg,
                   transport, history>>
    /\ UNCHANGED <<audit, waiter, serializer, observer>>

\* workerThread, lines 210-214: ZMQ_LINGER and ZMQ_SNDTIMEO
WorkerSetOptions ==
    /\ wpc = "setopts"
    /\ \E ok \in InitOutcomes :
        IF ok
        THEN /\ sockopt' = [sockopt EXCEPT !.linger = 0, !.sndtimeo = HEARBEAT_TIMEOUT]
             /\ wpc' = "ready" /\ UNCHANGED isWorking
        ELSE /\ isWorking' = FALSE /\ wpc' = "done" /\ UNCHANGED sockopt
    /\ UNCHANGED <<env, clientType, callback, callbackMutex, messageQue, messageMutex,
                   startServing, errorConnect, flushOnExit, serverStop, frontend, context>>
    /\ UNCHANGED <<facade, c, revents, didWork, now, lastHBRecv, lastHBSend, inMsg,
                   transport, history>>
    /\ UNCHANGED <<audit, waiter, serializer, observer>>

\* workerThread, lines 216-224: socketInit is set under the constructor's mutex
WorkerSignalReady ==
    /\ wpc = "ready"
    /\ socketInit' = TRUE
    /\ wpc' = "wait"
    /\ UNCHANGED <<members, upc, stopBegin, c, revents, didWork, now, lastHBRecv, lastHBSend,
                   inMsg, transport, history>>
    /\ UNCHANGED <<audit, waiter, serializer, observer>>

\* a worker that would start the handshake without looking at errorConnect
WorkerAwaitServingNoCheck ==
    /\ wpc = "wait"
    /\ startServing
    /\ wpc' = "hs_send"
    /\ UNCHANGED <<members, facade, c, revents, didWork, now, lastHBRecv, lastHBSend, inMsg,
                   transport, history>>
    /\ UNCHANGED <<audit, waiter, serializer, observer>>

\* workerThread, lines 226-240: the wait for startServing, then errorConnect
WorkerAwaitServing ==
    /\ wpc = "wait"
    /\ startServing
    /\ wpc' = IF errorConnect THEN "exit" ELSE "hs_send"
    /\ UNCHANGED <<members, facade, c, revents, didWork, now, lastHBRecv, lastHBSend, inMsg,
                   transport, history>>
    /\ UNCHANGED <<audit, waiter, serializer, observer>>

\* the role's connect opcode, lines 246-250
ConnectMsg(type) ==
    IF type = "Exporter" THEN EXPORTER_CONNECT_MSG ELSE HEARTBEAT_CONNECT_MSG

\* the role's create opcode, lines 283-293
CreateMsg(type) ==
    IF type = "Exporter" THEN RENDERER_CREATE_MSG ELSE HEARTBEAT_CREATE_MSG

\* workerThread, lines 244-261: the connect envelope, then ZMQ_RCVTIMEO
WorkerSendHandshake ==
    /\ wpc = "hs_send"
    /\ \E o \in BothParts, opt \in CallOutcomes :
        /\ lastOutAt' = IF Accepted(o) THEN high_resolution_clock_now ELSE lastOutAt
        /\ framing' = FramingAfter(framing, o)
        /\ IF Thrown(o) \/ opt = "throw"
           THEN /\ wpc' = "exit" /\ hsResult' = "error" /\ UNCHANGED <<sockopt, waited>>
           ELSE /\ sockopt' = [sockopt EXCEPT !.rcvtimeo = EXPORTER_TIMEOUT]
                /\ wpc' = "hs_recv" /\ waited' = 0 /\ UNCHANGED hsResult
    /\ UNCHANGED <<env, clientType, callback, callbackMutex, messageQue, messageMutex,
                   startServing, isWorking, errorConnect, flushOnExit, serverStop, frontend,
                   context>>
    /\ UNCHANGED <<facade, c, revents, didWork, now, lastHBRecv, lastHBSend, inMsg, pending,
                   rcvmore>>
    /\ UNCHANGED <<nEnq, nRecv, emitted, attempted, nPing, nStop, stopRole, hsReply, steady,
                   delivered, running, lastRecvAt, stopInSteady, ssMark>>
    /\ UNCHANGED <<connectOk, waiter, serializer, observer>>

\* a handshake that would not compare the reply's role with its own
HandshakeAcceptsAnyRole(msg) ==
    LET frame == ControlFrame(msg) IN
    /\ FrameOk(frame)
    /\ frame.control = CreateMsg(clientType)

\* lines 271-293: the reply is accepted
HandshakeAccepts(msg) ==
    LET frame == ControlFrame(msg) IN
    /\ FrameOk(frame)
    /\ frame.type = clientType
    /\ frame.control = CreateMsg(clientType)

\* what a recv can do when no part is known to wait: return a message of the peer,
\* return false after ZMQ_RCVTIMEO, or throw
RecvOutcomes(peerCanSend) ==
    IF context = "term" THEN {"throw"}
    ELSE (IF peerCanSend THEN {"msg"} ELSE {})
         \cup (IF ~env.timed \/ waited >= sockopt.rcvtimeo THEN {"timeout"} ELSE {})
         \cup (IF env.net = "faulty" THEN {"throw"} ELSE {})

\* workerThread, lines 263-305: the reply (or none within ZMQ_RCVTIMEO), its checks,
\* and the entry of the steady loop
WorkerRecvHandshake ==
    /\ wpc = "hs_recv"
    /\ \E o \in RecvOutcomes(frontend = "connected"), msg \in PeerFrames, more \in BOOLEAN :
        IF o = "msg" /\ HandshakeAccepts(msg)
        THEN /\ hsResult' = "ok" /\ hsReply' = Numbered(msg, 0)
             /\ steady' = TRUE
             /\ rcvmore' = more
             /\ lastHBRecv' = high_resolution_clock_now
             /\ lastHBSend' = Max(lastHBRecv' - 2 * HEARBEAT_TIMEOUT, -Horizon)
             /\ lastRecvAt' = high_resolution_clock_now
             /\ wpc' = "loop"
        ELSE /\ hsResult' = (IF o = "msg" THEN "rejected" ELSE IF o = "timeout" THEN "timeout"
                             ELSE "error")
             /\ wpc' = "exit"
             /\ UNCHANGED <<hsReply, steady, rcvmore, lastHBRecv, lastHBSend, lastRecvAt>>
    /\ waited' = 0
    /\ UNCHANGED <<members, facade, c, revents, didWork, now, inMsg, pending>>
    /\ UNCHANGED <<nEnq, nRecv, emitted, attempted, nPing, nStop, stopRole, delivered, running,
                   lastOutAt, stopInSteady, ssMark>>
    /\ UNCHANGED <<audit, waiter, serializer, observer>>

\* ---------------------------------------------------- worker: steady loop
\* where the loop goes after the readable branch, lines 371-394
AfterReadable == IF "OUT" \in revents THEN "out" ELSE "live"

\* workerThread, lines 307-309: while (isWorking), didWork, now
WorkerLoop ==
    /\ wpc = "loop"
    /\ IF isWorking
       THEN /\ didWork' = FALSE /\ now' = high_resolution_clock_now /\ wpc' = "poll"
       ELSE /\ wpc' = "tail" /\ UNCHANGED <<didWork, now>>
    /\ UNCHANGED <<members, facade, c, revents, lastHBRecv, lastHBSend, inMsg, transport,
                   history>>
    /\ UNCHANGED <<audit, waiter, serializer, observer>>

\* the peer has envelopes left to send
PeerCanSend == nRecv < env.peer

\* what poll can report: input when the peer has sent (it must, when a part is
\* known to be waiting), output when the transport takes it
PollEvents ==
    {ev \in SUBSET {"IN", "OUT"} :
        /\ pending => "IN" \in ev
        /\ "IN" \in ev => (pending \/ PeerCanSend)
        /\ env.net = "reliable" => "OUT" \in ev}

\* workerThread, lines 311-321: zmq::poll and the branch it selects
WorkerPoll ==
    /\ wpc = "poll"
    /\ \E o \in CallOutcomes, ev \in PollEvents :
        IF o = "throw"
        THEN /\ wpc' = "exit"
             /\ UNCHANGED <<revents, didWork, c, pending>>
        ELSE /\ revents' = ev
             /\ didWork' = ("IN" \in ev)
             /\ pending' = ("IN" \in ev)
             /\ c' = 0
             /\ wpc' = IF "IN" \in ev THEN "rl" ELSE IF "OUT" \in ev THEN "out" ELSE "live"
    /\ UNCHANGED <<members, facade, now, lastHBRecv, lastHBSend, inMsg, rcvmore, waited, history>>
    /\ UNCHANGED <<audit, waiter, serializer, observer>>

\* workerThread, line 321: the condition of the receive loop
WorkerRecvLoop ==
    /\ wpc = "rl"
    /\ IF c < MAX_CONSEQ_MESSAGES /\ isWorking
       THEN wpc' = "recv"
       ELSE wpc' = AfterReadable
    /\ inMsg' = NoMsg
    /\ waited' = 0
    /\ UNCHANGED <<members, facade, c, revents, didWork, now, lastHBRecv, lastHBSend, pending,
                   rcvmore, history>>
    /\ UNCHANGED <<audit, waiter, serializer, observer>>

\* a readable branch that would not compare the envelope's role with its own
DispatchAnyRole(msg) ==
    LET frame == ControlFrame(msg) IN
    IF ~FrameOk(frame) THEN "drop"
    ELSE IF frame.control = DATA_MSG THEN "data"
    ELSE "other"

\* lines 331-358: what the worker does with a received envelope
Dispatch(msg) ==
    LET frame == ControlFrame(msg) IN
    IF ~FrameOk(frame) THEN "drop"
    ELSE IF frame.type # clientType THEN "drop"
    ELSE IF frame.control = DATA_MSG THEN "data"
    ELSE "other"

\* workerThread, lines 322-343: the two recv calls of one envelope and its decoding
\* (after a recv that returned false the message is empty and decodes as invalid)
WorkerRecv ==
    /\ wpc = "recv"
    /\ \E o \in (IF pending /\ context # "term" THEN {"msg"} ELSE RecvOutcomes(PeerCanSend)),
          msg \in PeerFrames, more \in BOOLEAN :
        IF o = "throw"
        THEN /\ wpc' = "exit"
             /\ UNCHANGED <<c, lastHBRecv, inMsg, pending, rcvmore, nRecv, lastRecvAt>>
        ELSE IF o = "timeout"
        THEN /\ inMsg' = EmptyMsg
             /\ c' = c + 1
             /\ wpc' = "rl"
             /\ UNCHANGED <<lastHBRecv, pending, rcvmore, nRecv, lastRecvAt>>
        ELSE /\ more => nRecv + 1 < env.peer
             /\ inMsg' = Numbered(msg, nRecv + 1)
             /\ nRecv' = nRecv + 1
             /\ rcvmore' = more
             /\ pending' = more
             /\ lastRecvAt' = high_resolution_clock_now
             /\ IF Dispatch(msg) = "drop"
                THEN /\ c' = c + 1 /\ wpc' = "rl" /\ UNCHANGED lastHBRecv
                ELSE /\ lastHBRecv' = high_resolution_clock_now
                     /\ wpc' = IF Dispatch(msg) = "data" THEN "cb_lock" ELSE "more"
                     /\ UNCHANGED c
    /\ waited' = 0
    /\ UNCHANGED <<members, facade, revents, didWork, now, lastHBSend>>
    /\ UNCHANGED <<nEnq, emitted, attempted, nPing, nStop, stopRole, hsResult, hsReply, steady,
                   delivered, running, lastOutAt, stopInSteady, ssMark>>
    /\ UNCHANGED <<audit, waiter, serializer, observer>>

\* workerThread, lines 345-348: callbackMutex is taken and the callback, if set, is called
WorkerDispatchData ==
    /\ wpc = "cb_lock"
    /\ callbackMutex = "free"
    /\ delivered' = Append(delivered, [msg |-> inMsg, cb |-> callback])
    /\ IF callback # NoCallback
       THEN /\ callbackMutex' = "worker" /\ running' = callback /\ wpc' = "cb_run"
       ELSE /\ wpc' = "more" /\ UNCHANGED <<callbackMutex, running>>
    /\ UNCHANGED <<env, clientType, callback, messageQue, messageMutex, startServing, isWorking,
                   errorConnect, flushOnExit, serverStop, frontend, sockopt, context>>
    /\ UNCHANGED <<facade, c, revents, didWork, now, lastHBRecv, lastHBSend, inMsg, transport>>
    /\ UNCHANGED <<nEnq, nRecv, emitted, attempted, nPing, nStop, stopRole, hsResult, hsReply,
                   steady, lastRecvAt, lastOutAt, stopInSteady, ssMark>>
    /\ UNCHANGED <<audit, waiter, serializer, observer>>

\* workerThread, lines 348-349: the callback returns and callbackMutex is released
WorkerCallbackReturns ==
    /\ wpc = "cb_run"
    /\ callbackMutex' = "free"
    /\ running' = NoCallback
    /\ wpc' = "more"
    /\ UNCHANGED <<env, clientType, callback, messageQue, messageMutex, startServing, isWorking,
                   errorConnect, flushOnExit, serverStop, frontend, sockopt, context>>
    /\ UNCHANGED <<facade, c, revents, didWork, now, lastHBRecv, lastHBSend, inMsg, transport>>
    /\ UNCHANGED <<nEnq, nRecv, emitted, attempted, nPing, nStop, stopRole, hsResult, hsReply,
                   steady, delivered, lastRecvAt, lastOutAt, stopInSteady, ssMark>>
    /\ UNCHANGED <<audit, waiter, serializer, observer>>

\* the callback, running on the worker thread at line 347, calls send on the
\* client it was passed (lines 573-583): messageMutex is not held by the worker
\* here, so the payload is appended once the mutex is free
CallbackSend ==
    /\ wpc = "cb_run"
    /\ nEnq < env.sends
    /\ messageMutex = "free"
    /\ messageQue' = Append(messageQue, nEnq + 1)
    /\ nEnq' = nEnq + 1
    /\ UNCHANGED <<env, clientType, callback, callbackMutex, messageMutex, startServing,
                   isWorking, errorConnect, flushOnExit, serverStop, frontend, sockopt, context>>
    /\ UNCHANGED <<facade, locals, transport>>
    /\ UNCHANGED <<nRecv, emitted, attempted, nPing, nStop, stopRole, hsResult, hsReply, steady,
                   delivered, running, lastRecvAt, lastOutAt, stopInSteady, ssMark>>
    /\ UNCHANGED <<audit, waiter, serializer, observer>>

\* what locking a std::mutex does to the thread that owns it already (undefined
\* behaviour): the thread waits for itself, or the library reports the deadlock
\* with std::system_error, which nothing on the worker thread catches
RelockOutcomes == {"blocks", "throws"}

\* the callback calls setCallback on the client it was passed (lines 568-571):
\* its lock_guard locks callbackMutex, which the worker thread holds since line 346
CallbackSetCallback ==
    /\ wpc = "cb_run"
    /\ callbackMutex = "worker"
    /\ \E o \in RelockOutcomes :
        wpc' = IF o = "blocks" THEN "cb_blocked" ELSE "terminated"
    /\ UNCHANGED <<members, facade, c, revents, didWork, now, lastHBRecv, lastHBSend, inMsg,
                   transport, history>>
    /\ UNCHANGED <<audit, waiter, serializer, observer>>

\* workerThread, lines 360-370: ZMQ_RCVMORE decides whether the loop reads on
\* (a getsockopt that throws is logged and reads as "no more")
WorkerRcvMore ==
    /\ wpc = "more"
    /\ \E o \in CallOutcomes :
        IF o = "ok" /\ rcvmore
        THEN /\ c' = c + 1 /\ wpc' = "rl"
        ELSE /\ wpc' = AfterReadable /\ UNCHANGED c
    /\ inMsg' = NoMsg
    /\ UNCHANGED <<members, facade, revents, didWork, now, lastHBRecv, lastHBSend, transport,
                   history>>
    /\ UNCHANGED <<audit, waiter, serializer, observer>>

\* a PING check that would compare with the Heartbeat timeout
PingDueLate(t, last) == t - last > HEARBEAT_TIMEOUT

\* line 377: more than CLIENT_PING_INTERVAL since the last send
PingDue(t, last) == t - last > CLIENT_PING_INTERVAL

\* workerThread, lines 373-387: the writable branch up to the call of
\* workerSendoutMessages: now, the PING when it is due, didWork
\* messageQue.empty() read without messageMutex (lines 386, 438): the state of
\* the queue, or, while a producer is inside push_back, either answer (a data race)
QueueEmptyUnlocked ==
    IF messageMutex = "producer" THEN BOOLEAN ELSE {messageQue = <<>>}

\* messageQue.size() read without messageMutex (line 487), likewise
QueueSizeUnlocked ==
    IF messageMutex = "producer" THEN 0..env.sends ELSE {Len(messageQue)}

WorkerWritable ==
    /\ wpc = "out"
    /\ now' = high_resolution_clock_now
    /\ \E o \in (IF PingDue(now', lastHBSend) THEN IfAccepted ELSE {<<"skip", "skip">>}),
          e \in QueueEmptyUnlocked :
        /\ framing' = FramingAfter(framing, o)
        /\ IF Thrown(o)
           THEN /\ wpc' = "exit" /\ UNCHANGED <<lastHBSend, didWork, c, nPing, lastOutAt>>
           ELSE /\ lastHBSend' = IF o[1] = "ok" THEN now' ELSE lastHBSend
                /\ didWork' = (didWork \/ o[1] = "ok" \/ ~e)
                /\ nPing' = IF Accepted(o) THEN Count2(nPing) ELSE nPing
                /\ lastOutAt' = IF Accepted(o) THEN high_resolution_clock_now ELSE lastOutAt
                /\ c' = 0
                /\ wpc' = "drain"
    /\ UNCHANGED <<members, facade, revents, lastHBRecv, inMsg, transport>>
    /\ UNCHANGED <<nEnq, nRecv, emitted, attempted, nStop, stopRole, hsResult, hsReply, steady,
                   delivered, running, lastRecvAt, stopInSteady, ssMark>>
    /\ UNCHANGED <<connectOk, waiter, serializer, observer>>

\* workerSendoutMessages, lines 438-460: one round of its loop, under messageMutex:
\* the DATA envelope of the front payload, its removal, ZMQ_RCVMORE
WorkerSendoutMessages ==
    /\ wpc = "drain"
    /\ \E e \in QueueEmptyUnlocked :
       IF c < MAX_CONSEQ_MESSAGES /\ ~e /\ isWorking
       THEN /\ messageMutex = "free"
            /\ \E o \in IfAccepted, g \in CallOutcomes :
                /\ attempted' = attempted \cup {Head(messageQue)}
                /\ framing' = FramingAfter(framing, o)
                /\ IF Thrown(o)
                   THEN /\ wpc' = "exit"
                        /\ UNCHANGED <<messageQue, lastHBSend, emitted, lastOutAt, c>>
                   ELSE IF o[1] # "ok"
                   THEN /\ wpc' = "live"
                        /\ UNCHANGED <<messageQue, lastHBSend, emitted, lastOutAt, c>>
                   ELSE /\ lastHBSend' = high_resolution_clock_now
                        /\ messageQue' = Tail(messageQue)
                        /\ emitted' = IF Accepted(o) THEN Append(emitted, Head(messageQue))
                                      ELSE emitted
                        /\ lastOutAt' = IF Accepted(o) THEN high_resolution_clock_now
                                        ELSE lastOutAt
                        /\ IF g = "throw" THEN wpc' = "exit" /\ UNCHANGED c
                           ELSE IF ~rcvmore THEN wpc' = "live" /\ UNCHANGED c
                           ELSE wpc' = "drain" /\ c' = c + 1
       ELSE /\ wpc' = "live"
            /\ UNCHANGED <<messageQue, lastHBSend, emitted, attempted, lastOutAt, c, framing>>
    /\ UNCHANGED <<env, clientType, callback, callbackMutex, messageMutex, startServing,
                   isWorking, errorConnect, flushOnExit, serverStop, frontend, sockopt, context>>
    /\ UNCHANGED <<facade, revents, didWork, now, lastHBRecv, inMsg, transport>>
    /\ UNCHANGED <<nEnq, nRecv, nPing, nStop, stopRole, hsResult, hsReply, steady, delivered,
                   running, lastRecvAt, stopInSteady, ssMark>>
    /\ UNCHANGED <<connectOk, waiter, serializer, observer>>

\* line 394: the Heartbeat client's peer has been silent for too long
PeerSilent(type, t, last) == type = "Heartbeat" /\ t - last > HEARBEAT_TIMEOUT

\* workerThread, lines 394-401: the liveness check and the idle sleep
WorkerLiveness ==
    /\ wpc = "live"
    /\ wpc' = IF PeerSilent(clientType, now, lastHBRecv) THEN "exit"
              ELSE IF ~didWork /\ isWorking THEN "sleep"
              ELSE "loop"
    /\ waited' = 0
    /\ UNCHANGED <<members, facade, c, revents, didWork, now, lastHBRecv, lastHBSend, inMsg,
                   pending, rcvmore, history>>
    /\ UNCHANGED <<audit, waiter, serializer, observer>>

\* workerThread, line 400: sleep_for returns
WorkerSleep ==
    /\ wpc = "sleep"
    /\ wpc' = "loop"
    /\ waited' = 0
    /\ UNCHANGED <<members, facade, c, revents, didWork, now, lastHBRecv, lastHBSend, inMsg,
                   pending, rcvmore, history>>
    /\ UNCHANGED <<audit, waiter, serializer, observer>>

\* ------------------------------------------------------- worker: teardown
\* a tail that would flush whenever flushOnExit is set, after the STOP too
WorkerTailStopThenFlush ==
    /\ wpc = "tail"
    /\ \E g \in CallOutcomes, o \in BothParts :
        /\ IF serverStop /\ g = "ok"
           THEN /\ serverStop' = (IF Thrown(o) THEN serverStop ELSE FALSE)
                /\ nStop' = IF Accepted(o) THEN Count2(nStop) ELSE nStop
                /\ stopRole' = IF Accepted(o) THEN clientType ELSE stopRole
                /\ lastOutAt' = IF Accepted(o) THEN high_resolution_clock_now ELSE lastOutAt
           ELSE UNCHANGED <<serverStop, nStop, stopRole, lastOutAt>>
        /\ IF flushOnExit /\ g = "ok" /\ ~(serverStop /\ Thrown(o))
           THEN /\ messageMutex = "free"
                /\ sockopt' = [sockopt EXCEPT !.sndtimeo = TAIL_SNDTIMEO]
                /\ messageMutex' = "worker"
                /\ c' = 0
                /\ wpc' = "flush"
           ELSE /\ wpc' = "exit"
                /\ UNCHANGED <<sockopt, messageMutex, c>>
    /\ UNCHANGED <<env, clientType, callback, callbackMutex, messageQue, startServing,
                   isWorking, errorConnect, flushOnExit, frontend, context>>
    /\ UNCHANGED <<facade, revents, didWork, now, lastHBRecv, lastHBSend, inMsg, transport>>
    /\ UNCHANGED <<nEnq, nRecv, emitted, attempted, nPing, hsResult, hsReply, steady,
                   delivered, running, lastRecvAt, stopInSteady, ssMark>>
    /\ UNCHANGED <<audit, waiter, serializer, observer>>

\* workerThread, lines 404-419: the tail chosen after the loop ended: STOP when
\* serverStop, else the start of the flush (ZMQ_SNDTIMEO, messageMutex) when flushOnExit
WorkerTail ==
    /\ wpc = "tail"
    /\ IF serverStop
       THEN /\ \E g \in CallOutcomes, o \in BothParts :
                IF g = "throw"
                THEN UNCHANGED <<sockopt, serverStop, nStop, stopRole, lastOutAt, framing>>
                ELSE /\ sockopt' = [sockopt EXCEPT !.sndtimeo = TAIL_SNDTIMEO]
                     /\ framing' = FramingAfter(framing, o)
                     /\ serverStop' = (IF Thrown(o) THEN serverStop ELSE FALSE)
                     /\ nStop' = IF Accepted(o) THEN Count2(nStop) ELSE nStop
                     /\ stopRole' = IF Accepted(o) THEN clientType ELSE stopRole
                     /\ lastOutAt' = IF Accepted(o) THEN high_resolution_clock_now
                                     ELSE lastOutAt
            /\ wpc' = "exit"
            /\ UNCHANGED <<messageMutex, c>>
       ELSE IF flushOnExit
       THEN /\ \E g \in CallOutcomes :
                IF g = "throw"
                THEN wpc' = "exit" /\ UNCHANGED <<sockopt, messageMutex, c>>
                ELSE /\ messageMutex = "free"
                     /\ sockopt' = [sockopt EXCEPT !.sndtimeo = TAIL_SNDTIMEO]
                     /\ messageMutex' = "worker"
                     /\ c' = 0
                     /\ wpc' = "flush"
            /\ UNCHANGED <<serverStop, nStop, stopRole, lastOutAt, framing>>
       ELSE /\ wpc' = "exit"
            /\ UNCHANGED <<sockopt, serverStop, messageMutex, c, nStop, stopRole, lastOutAt,
                           framing>>
    /\ UNCHANGED <<env, clientType, callback, callbackMutex, messageQue, startServing,
                   isWorking, errorConnect, flushOnExit, frontend, context>>
    /\ UNCHANGED <<facade, revents, didWork, now, lastHBRecv, lastHBSend, inMsg, transport>>
    /\ UNCHANGED <<nEnq, nRecv, emitted, attempted, nPing, hsResult, hsReply, steady,
                   delivered, running, lastRecvAt, stopInSteady, ssMark>>
    /\ UNCHANGED <<connectOk, waiter, serializer, observer>>

\* workerThread, lines 421-431: one round of the flush loop, and its end: close
WorkerFlush ==
    /\ wpc = "flush"
    /\ IF c < Len(messageQue)
       THEN \E o \in IfAccepted :
            /\ attempted' = attempted \cup {messageQue[c + 1]}
            /\ framing' = FramingAfter(framing, o)
            /\ IF Thrown(o)
               THEN /\ wpc' = "exit" /\ messageMutex' = "free"
                    /\ UNCHANGED <<c, emitted, lastOutAt, frontend>>
               ELSE IF Accepted(o)
               THEN /\ emitted' = Append(emitted, messageQue[c + 1])
                    /\ lastOutAt' = high_resolution_clock_now
                    /\ c' = c + 1
                    /\ UNCHANGED <<wpc, messageMutex, frontend>>
               ELSE /\ frontend' = "closed" /\ messageMutex' = "free" /\ wpc' = "exit"
                    /\ UNCHANGED <<c, emitted, lastOutAt>>
       ELSE /\ frontend' = "closed" /\ messageMutex' = "free" /\ wpc' = "exit"
            /\ UNCHANGED <<c, emitted, attempted, lastOutAt, framing>>
    /\ UNCHANGED <<env, clientType, callback, callbackMutex, messageQue, startServing,
                   isWorking, errorConnect, flushOnExit, serverStop, sockopt, context>>
    /\ UNCHANGED <<facade, revents, didWork, now, lastHBRecv, lastHBSend, inMsg, transport>>
    /\ UNCHANGED <<nEnq, nRecv, nPing, nStop, stopRole, hsResult, hsReply, steady, delivered,
                   running, lastRecvAt, stopInSteady, ssMark>>
    /\ UNCHANGED <<connectOk, waiter, serializer, observer>>

\* workerThread, lines 233-236: atScopeExit closes the socket and clears isWorking;
\* the thread's locals are gone
WorkerScopeExit ==
    /\ wpc = "exit"
    /\ frontend' = "closed"
    /\ isWorking' = FALSE
    /\ wpc' = "done"
    /\ c' = 0 /\ revents' = {} /\ didWork' = FALSE
    /\ now' = NoTime /\ lastHBRecv' = NoTime /\ lastHBSend' = NoTime /\ inMsg' = NoMsg
    /\ pending' = FALSE /\ rcvmore' = FALSE /\ waited' = 0
    /\ lastRecvAt' = NoTime /\ lastOutAt' = NoTime
    /\ UNCHANGED <<env, clientType, callback, callbackMutex, messageQue, messageMutex,
                   startServing, errorConnect, flushOnExit, serverStop, sockopt, context>>
    /\ UNCHANGED <<facade, nEnq, nRecv, emitted, attempted, nPing, nStop, stopRole, hsResult,
                   hsReply, steady, delivered, running, stopInSteady, ssMark>>
    /\ UNCHANGED <<audit, waiter, serializer, observer>>

\* ------------------------------------------------------------- the facade
\* the worker is inside the steady loop
SteadyPcs == {"loop", "poll", "rl", "recv", "cb_lock", "cb_run", "more", "out", "drain", "live",
              "sleep"}

\* the constructor has returned
Constructed == upc \notin {"ctor", "ctor_wait"}

\* the object is in use: constructed and syncStop has not returned
InUse == Constructed /\ upc # "stopped"

\* ZmqClient::ZmqClient, line 197: the worker thread is started
ConstructorSpawn ==
    /\ upc = "ctor"
    /\ wpc' = "create"
    /\ upc' = "ctor_wait"
    /\ UNCHANGED <<members, socketInit, stopBegin, c, revents, didWork, now, lastHBRecv,
                   lastHBSend, inMsg, transport, history>>
    /\ UNCHANGED <<audit, waiter, serializer, observer>>

\* a constructor that would return without waiting for socketInit
ConstructorNoWait ==
    /\ upc = "ctor_wait"
    /\ upc' = "idle"
    /\ UNCHANGED <<members, socketInit, stopBegin, locals, transport, history>>
    /\ UNCHANGED <<audit, waiter, serializer, observer>>

\* ZmqClient::ZmqClient, lines 199-203: threadReady.wait until socketInit
ConstructorWait ==
    /\ upc = "ctor_wait"
    /\ socketInit
    /\ upc' = "idle"
    /\ UNCHANGED <<members, socketInit, stopBegin, locals, transport, history>>
    /\ UNCHANGED <<audit, waiter, serializer, observer>>

\* connect, lines 466-477: ZMQ_IDENTITY and connect; a failed connect is caught
Connect ==
    /\ upc = "idle"
    /\ ~startServing
    /\ frontend = "open"
    /\ \E ok \in BOOLEAN :
        IF ok
        THEN frontend' = "connected" /\ UNCHANGED errorConnect
        ELSE errorConnect' = TRUE /\ UNCHANGED frontend
    /\ upc' = "conn_signal"
    /\ UNCHANGED <<env, clientType, callback, callbackMutex, messageQue, messageMutex,
                   startServing, isWorking, flushOnExit, serverStop, sockopt, context>>
    /\ UNCHANGED <<socketInit, stopBegin, locals, transport, history>>
    /\ UNCHANGED <<audit, waiter, serializer, observer>>

\* connect, lines 465-477, called in whatever state the client is in (again,
\* after the worker has exited, after syncStop): nothing in it tests the state.
\* On a closed socket setsockopt throws out of connect (line 470 is outside the
\* try) and nothing changes; else the socket is given an identity and connected
\* as at the first call, whatever the worker is doing with it
ConnectAnytime ==
    /\ upc \in {"idle", "stopped"}
    /\ IF frontend = "closed"
       THEN UNCHANGED <<frontend, errorConnect, upc>>
       ELSE /\ upc' = "conn_signal"
            /\ \E ok \in BOOLEAN :
                IF ok
                THEN frontend' = "connected" /\ UNCHANGED errorConnect
                ELSE errorConnect' = TRUE /\ UNCHANGED frontend
    /\ UNCHANGED <<env, clientType, callback, callbackMutex, messageQue, messageMutex,
                   startServing, isWorking, flushOnExit, serverStop, sockopt, context>>
    /\ UNCHANGED <<socketInit, stopBegin, locals, transport, history>>
    /\ UNCHANGED <<audit, waiter, serializer, observer>>

\* connect, lines 479-483: startServing is set and the worker is notified
ConnectSignal ==
    /\ upc = "conn_signal"
    /\ startServing' = TRUE
    /\ upc' = "idle"
    /\ UNCHANGED <<env, clientType, callback, callbackMutex, messageQue, messageMutex,
                   isWorking, errorConnect, flushOnExit, serverStop, frontend, sockopt, context>>
    /\ UNCHANGED <<socketInit, stopBegin, locals, transport, history>>
    /\ connectOk' = ~errorConnect
    /\ UNCHANGED <<framing, waiter, serializer, observer>>

\* connected, lines 490-492
connected == startServing /\ ~errorConnect

\* good, lines 494-496
good == isWorking

\* send, lines 573-583: the payload is appended under messageMutex
\* send, lines 573-583, taken apart for a producer on a thread of its own: the
\* lock_guard is taken, and push_back and the release follow
SendLock ==
    /\ InUse
    /\ nEnq < env.sends
    /\ messageMutex = "free"
    /\ messageMutex' = "producer"
    /\ UNCHANGED <<env, clientType, callback, callbackMutex, messageQue, startServing,
                   isWorking, errorConnect, flushOnExit, serverStop, frontend, sockopt, context>>
    /\ UNCHANGED <<facade, locals, transport, history, audit, waiter, serializer, observer>>

SendPush ==
    /\ messageMutex = "producer"
    /\ messageQue' = Append(messageQue, nEnq + 1)
    /\ nEnq' = nEnq + 1
    /\ messageMutex' = "free"
    /\ UNCHANGED <<env, clientType, callback, callbackMutex, startServing,
                   isWorking, errorConnect, flushOnExit, serverStop, frontend, sockopt, context>>
    /\ UNCHANGED <<facade, locals, transport>>
    /\ UNCHANGED <<nRecv, emitted, attempted, nPing, nStop, stopRole, hsResult, hsReply, steady,
                   delivered, running, lastRecvAt, lastOutAt, stopInSteady, ssMark>>
    /\ UNCHANGED <<audit, waiter, serializer, observer>>

\* getOutstandingMessages, lines 486-488: messageQue.size(), no lock taken
GetOutstandingMessages ==
    /\ InUse
    /\ \E n \in QueueSizeUnlocked : outstanding' = n
    /\ UNCHANGED <<members, facade, locals, transport, history, audit, waiter, serializer>>

Send ==
    /\ InUse
    /\ nEnq < env.sends
    /\ messageMutex = "free"
    /\ messageQue' = Append(messageQue, nEnq + 1)
    /\ nEnq' = nEnq + 1
    /\ UNCHANGED <<env, clientType, callback, callbackMutex, messageMutex, startServing,
                   isWorking, errorConnect, flushOnExit, serverStop, frontend, sockopt, context>>
    /\ UNCHANGED <<facade, locals, transport>>
    /\ UNCHANGED <<nRecv, emitted, attempted, nPing, nStop, stopRole, hsResult, hsReply, steady,
                   delivered, running, lastRecvAt, lastOutAt, stopInSteady, ssMark>>
    /\ UNCHANGED <<audit, waiter, serializer, observer>>

\* a setCallback that would not take callbackMutex
SetCallbackUnlocked(cb) ==
    /\ InUse
    /\ cb # callback
    /\ callback' = cb
    /\ UNCHANGED <<env, clientType, callbackMutex, messageQue, messageMutex, startServing,
                   isWorking, errorConnect, flushOnExit, serverStop, frontend, sockopt, context>>
    /\ UNCHANGED <<facade, locals, transport, history>>
    /\ UNCHANGED <<audit, waiter, serializer, observer>>

\* setCallback, lines 568-571: the callback is replaced under callbackMutex
SetCallback(cb) ==
    /\ InUse
    /\ callbackMutex = "free"
    /\ cb # callback
    /\ callback' = cb
    /\ UNCHANGED <<env, clientType, callbackMutex, messageQue, messageMutex, startServing,
                   isWorking, errorConnect, flushOnExit, serverStop, frontend, sockopt, context>>
    /\ UNCHANGED <<facade, locals, transport, history>>
    /\ UNCHANGED <<audit, waiter, serializer, observer>>

\* setFlushOnExit, lines 560-562
SetFlushOnExit(flag) ==
    /\ InUse
    /\ flag # flushOnExit
    /\ flushOnExit' = flag
    /\ UNCHANGED <<env, clientType, callback, callbackMutex, messageQue, messageMutex,
                   startServing, isWorking, errorConnect, serverStop, frontend, sockopt, context>>
    /\ UNCHANGED <<facade, locals, transport, history>>
    /\ UNCHANGED <<audit, waiter, serializer, observer>>

\* stopServer, lines 498-501
StopServer ==
    /\ upc = "idle"
    /\ serverStop' = TRUE
    /\ isWorking' = FALSE
    /\ stopInSteady' = (stopInSteady \/ wpc \in SteadyPcs)
    /\ UNCHANGED <<env, clientType, callback, callbackMutex, messageQue, messageMutex,
                   startServing, errorConnect, flushOnExit, frontend, sockopt, context>>
    /\ UNCHANGED <<facade, locals, transport>>
    /\ UNCHANGED <<nEnq, nRecv, emitted, attempted, nPing, nStop, stopRole, hsResult, hsReply,
                   steady, delivered, running, lastRecvAt, lastOutAt, ssMark>>
    /\ UNCHANGED <<audit, waiter, serializer, observer>>

\* syncStop, lines 531-533: with serverStop set the grace wait begins
SyncStopBegin ==
    /\ upc = "idle"
    /\ IF serverStop
       THEN stopBegin' = high_resolution_clock_now /\ upc' = "ss_grace"
       ELSE upc' = "ss_flags" /\ UNCHANGED stopBegin
    /\ ssMark' = IF flushOnExit /\ ~serverStop /\ wpc \in SteadyPcs THEN nEnq ELSE ssMark
    /\ UNCHANGED <<members, socketInit, locals, transport>>
    /\ UNCHANGED <<nEnq, nRecv, emitted, attempted, nPing, nStop, stopRole, hsResult, hsReply,
                   steady, delivered, running, lastRecvAt, lastOutAt, stopInSteady>>
    /\ UNCHANGED <<audit, waiter, serializer, observer>>

\* syncStop, lines 534-539: the wait ends when the worker cleared serverStop or
\* after more than STOP_GRACE
SyncStopGrace ==
    /\ upc = "ss_grace"
    /\ \/ ~serverStop
       \/ ~env.timed
       \/ high_resolution_clock_now - stopBegin > STOP_GRACE
    /\ stopBegin' = NoTime
    /\ upc' = "ss_flags"
    /\ UNCHANGED <<members, socketInit, locals, transport, history>>
    /\ UNCHANGED <<audit, waiter, serializer, observer>>

\* a syncStop that would clear isWorking without waking a parked worker
SyncStopFlagsNoWake ==
    /\ upc = "ss_flags"
    /\ isWorking' = FALSE
    /\ upc' = "ss_term"
    /\ UNCHANGED <<env, clientType, callback, callbackMutex, messageQue, messageMutex,
                   startServing, errorConnect, flushOnExit, serverStop, frontend, sockopt,
                   context>>
    /\ UNCHANGED <<socketInit, stopBegin, locals, transport, history>>
    /\ UNCHANGED <<audit, waiter, serializer, observer>>

\* syncStop, lines 542-547: isWorking and startServing under startServingMutex
SyncStopFlags ==
    /\ upc = "ss_flags"
    /\ isWorking' = FALSE
    /\ startServing' = TRUE
    /\ upc' = "ss_term"
    /\ UNCHANGED <<env, clientType, callback, callbackMutex, messageQue, messageMutex,
                   errorConnect, flushOnExit, serverStop, frontend, sockopt, context>>
    /\ UNCHANGED <<socketInit, stopBegin, locals, transport, history>>
    /\ UNCHANGED <<audit, waiter, serializer, observer>>

\* syncStop, line 549: context.close() terminates the context: from now on every
\* call on the socket but close throws; the call returns when the socket is closed
SyncStopTerm ==
    /\ upc = "ss_term"
    /\ context' = "term"
    /\ upc' = "ss_join"
    /\ UNCHANGED <<env, clientType, callback, callbackMutex, messageQue, messageMutex,
                   startServing, isWorking, errorConnect, flushOnExit, serverStop, frontend,
                   sockopt>>
    /\ UNCHANGED <<socketInit, stopBegin, locals, transport, history>>
    /\ UNCHANGED <<audit, waiter, serializer, observer>>

\* syncStop, lines 549-553: the socket is closed, context.close() returns and the
\* worker is joined
SyncStopJoin ==
    /\ upc = "ss_join"
    /\ frontend = "closed"
    /\ wpc = "done"
    /\ wpc' = "joined"
    /\ upc' = "stopped"
    /\ UNCHANGED <<members, socketInit, stopBegin, c, revents, didWork, now, lastHBRecv,
                   lastHBSend, inMsg, transport, history>>
    /\ UNCHANGED <<audit, waiter, serializer, observer>>

\* --------------------------------------------------------- waitForMessages
\* line 504: timeout = std::min(timeout, 10000)
WaitClamp(t) == Min(t, WAIT_MAX)

\* the timeouts callers pass: one below the clamp, one above it
WaitTimeouts == {CLIENT_PING_INTERVAL, WAIT_MAX + CLIENT_PING_INTERVAL}

\* waitForMessages, lines 504-513: the first look at the queue under messageMutex,
\* then waitBegin
WaitForMessagesCall(t) ==
    /\ InUse
    /\ wfpc = "idle"
    /\ messageMutex = "free"
    /\ wfTimeout' = t
    /\ IF messageQue = <<>>
       THEN wfResult' = "true" /\ UNCHANGED <<wfpc, waitBegin>>
       ELSE wfResult' = "none" /\ wfpc' = "loop" /\ waitBegin' = high_resolution_clock_now
    /\ UNCHANGED <<members, facade, locals, transport, history, serializer, observer, audit>>

\* a loop that would report an emptied queue when the worker has stopped
WaitForMessagesLoopStoppedIsEmpty ==
    /\ wfpc = "loop"
    /\ IF ~isWorking
       THEN wfResult' = "true" /\ wfpc' = "idle"
       ELSE /\ messageMutex = "free"
            /\ messageQue = <<>>
            /\ wfResult' = "true" /\ wfpc' = "idle"
    /\ waitBegin' = NoTime
    /\ UNCHANGED <<members, facade, locals, transport, history, serializer, observer, audit, wfTimeout>>

\* waitForMessages, lines 515-526: one round of the loop that ends the call:
\* the worker has stopped, the queue is seen empty under messageMutex, or the
\* clamped timeout has passed (a round that finds none of these changes nothing)
WaitForMessagesLoop ==
    /\ wfpc = "loop"
    /\ IF ~isWorking
       THEN wfResult' = "false"
       ELSE /\ messageMutex = "free"
            /\ IF messageQue = <<>>
               THEN wfResult' = "true"
               ELSE /\ high_resolution_clock_now - waitBegin >= WaitClamp(wfTimeout)
                    /\ wfResult' = "false"
    /\ wfpc' = "idle"
    /\ waitBegin' = NoTime
    /\ UNCHANGED <<members, facade, locals, transport, history, serializer, observer, audit, wfTimeout>>

\* -------------------------------------------------------------------- time
\* the worker is in a call that lets time pass: a wait that has not timed out yet
TimeCanPass ==
    \/ wpc \in {"wait", "done", "joined"}
    \/ wpc = "hs_recv" /\ waited < sockopt.rcvtimeo
    \/ wpc = "recv" /\ ~pending /\ waited < sockopt.rcvtimeo
    \/ wpc = "sleep" /\ waited = 0

\* a time_point after Quantum more milliseconds
Shift(t) == IF t = NoTime THEN NoTime ELSE Max(t - Quantum, -Horizon)

\* waitBegin after Quantum more milliseconds (beyond the clamp the age no longer matters)
ShiftWait(t) == IF t = NoTime THEN NoTime ELSE Max(t - Quantum, -(WAIT_MAX + Quantum))

\* Quantum milliseconds pass
Tick ==
    /\ env.timed
    /\ TimeCanPass
    /\ waited' = IF wpc \in {"hs_recv", "recv", "sleep"}
                 THEN Min(waited + Quantum, EXPORTER_TIMEOUT) ELSE waited
    /\ now' = Shift(now)
    /\ lastHBRecv' = Shift(lastHBRecv)
    /\ lastHBSend' = Shift(lastHBSend)
    /\ stopBegin' = Shift(stopBegin)
    /\ lastRecvAt' = Shift(lastRecvAt)
    /\ lastOutAt' = Shift(lastOutAt)
    /\ UNCHANGED <<members, socketInit, upc, wpc, c, revents, didWork, inMsg, pending, rcvmore>>
    /\ UNCHANGED <<nEnq, nRecv, emitted, attempted, nPing, nStop, stopRole, hsResult, hsReply,
                   steady, delivered, running, stopInSteady, ssMark>>
    /\ waitBegin' = ShiftWait(waitBegin)
    /\ UNCHANGED <<audit, wfpc, wfTimeout, wfResult, serializer, observer>>

\* -------------------------------------------------------- SerializerStream
\* the values a byte holds
ByteRange == 2 ^ 8

\* the object representation of the unsigned value n in w bytes, low byte first
RECURSIVE ObjectBytes(_, _)
ObjectBytes(n, w) ==
    IF w = 0 THEN <<>> ELSE <<n % ByteRange>> \o ObjectBytes(n \div ByteRange, w - 1)

\* SerializerStream::write, lines 14-21: nothing for size 0, else the stream grows
\* by size and the data is copied behind the old end
write(s, data) == IF Len(data) = 0 THEN s ELSE s \o data

\* operator<< <T>, lines 36-39: the sizeof(value) bytes of the value
WriteScalar(s, n, w) == write(s, ObjectBytes(n, w))

\* a string writer that would copy the terminator of c_str() too
WriteStringTerminated(s, value) ==
    write(WriteScalar(s, Len(value), SIZE_T_WIDTH), value \o <<0>>)

\* operator<< <std::string>, lines 42-48: size_t size, then size bytes of c_str()
WriteString(s, value) == write(WriteScalar(s, Len(value), SIZE_T_WIDTH), value)

\* operator<< <AttrPlugin>, lines 57-60: plugin, then output
WritePlugin(s, p) == WriteString(WriteString(s, p[1]), p[2])

\* the contiguous storage of a list of ints
RECURSIVE ListBytes(_)
ListBytes(l) ==
    IF l = <<>> THEN <<>> ELSE ObjectBytes(Head(l), INT_WIDTH) \o ListBytes(Tail(l))

\* operator<< <AttrList<Q>>, lines 62-67: the count, then count * sizeof(Q) bytes
WriteList(s, l) == write(WriteScalar(s, Len(l), INT_WIDTH), ListBytes(l))

\* the loop of lines 84-88: each item in turn
RECURSIVE WriteEachString(_, _)
WriteEachString(s, l) ==
    IF l = <<>> THEN s ELSE WriteEachString(WriteString(s, Head(l)), Tail(l))

\* operator<< <AttrList<std::string>>, lines 81-90: the count, then the items
WriteListString(s, l) ==
    LET counted == WriteScalar(s, Len(l), INT_WIDTH)
    IN  IF l # <<>> THEN WriteEachString(counted, l) ELSE counted

\* stream << value, by the type of the value
Write(s, val) ==
    CASE val.t = "string" -> WriteString(s, val.v)
      [] val.t = "plugin" -> WritePlugin(s, val.v)
      [] val.t = "list" -> WriteList(s, val.v)
      [] val.t = "strings" -> WriteListString(s, val.v)

\* the strings, plugin references and lists the callers write
SerStrings == {<<>>, <<97>>, <<97, 98>>}
SerValues ==
    [t : {"string"}, v : SerStrings]
    \cup [t : {"plugin"}, v : SerStrings \X SerStrings]
    \cup [t : {"list"}, v : {<<>>, <<1>>, <<258, 0>>}]
    \cup [t : {"strings"}, v : {<<>>, << <<>> >>, << <<97>>, <<>> >>}]

\* one stream << value
SerWrite(val) ==
    /\ Len(written) < MaxWrites
    /\ stream' = Write(stream, val)
    /\ written' = Append(written, val)
    /\ UNCHANGED <<members, facade, locals, transport, history, audit, waiter, observer>>

\* ---------------------------------------------------------- specifications
\* the worker's steps outside the readable branch
WorkerCore ==
    \/ WorkerCreateSocket \/ WorkerSetOptions \/ WorkerSignalReady \/ WorkerAwaitServing
    \/ WorkerSendHandshake \/ WorkerRecvHandshake
    \/ WorkerLoop \/ WorkerPoll \/ WorkerWritable \/ WorkerSendoutMessages
    \/ WorkerLiveness \/ WorkerSleep
    \/ WorkerTail \/ WorkerScopeExit

\* the readable branch
WorkerReadable ==
    \/ WorkerRecvLoop \/ WorkerRecv \/ WorkerDispatchData \/ WorkerRcvMore

\* the thread that constructs, connects and stops the client
Owner ==
    \/ ConstructorSpawn \/ ConstructorWait \/ Connect \/ ConnectSignal
    \/ SyncStopBegin \/ SyncStopGrace \/ SyncStopFlags \/ SyncStopTerm \/ SyncStopJoin

\* producers, a transport that may fail, a peer that only answers the handshake;
\* delays are not followed
Init ==
    /\ Construct
    /\ env \in [sends : {MaxSend}, peer : {0}, net : {"reliable", "faulty"}, timed : {FALSE}]

Next ==
    \/ WorkerCore
    \/ WorkerFlush
    \/ Owner
    \/ Send
    \/ StopServer
    \/ \E flag \in BOOLEAN : SetFlushOnExit(flag)

Spec == Init /\ [][Next]_vars

\* the steps of syncStop
SyncStop ==
    \/ SyncStopBegin \/ SyncStopGrace \/ SyncStopFlags \/ SyncStopTerm \/ SyncStopJoin

\* the same, with the worker and a thread inside syncStop kept running
FairStop ==
    /\ WF_vars(WorkerCore \/ WorkerFlush)
    /\ WF_vars(SyncStop)

\* the same surroundings with a transport that does not fail on its own
InitStop ==
    /\ Construct
    /\ env \in [sends : {MaxSend}, peer : {0}, net : {"reliable"}, timed : {FALSE}]

SpecStop == InitStop /\ [][Next]_vars /\ FairStop

\* a peer that sends envelopes, callbacks that are swapped; no producers
InitRecv ==
    /\ Construct
    /\ env \in [sends : {0}, peer : {MaxRecv}, net : {"reliable"}, timed : {FALSE}]

NextRecv ==
    \/ WorkerCore
    \/ WorkerReadable
    \/ WorkerCallbackReturns
    \/ Owner
    \/ StopServer
    \/ \E cb \in Callbacks \cup {NoCallback} : SetCallback(cb)

SpecRecv == InitRecv /\ [][NextRecv]_vars

\* time is followed: a reliable transport, a peer that sends envelopes, producers
InitTimed ==
    /\ Construct
    /\ env \in [sends : {MaxSend}, peer : {MaxRecv}, net : {"reliable"}, timed : {TRUE}]

NextTimed ==
    \/ WorkerCore
    \/ WorkerReadable
    \/ Owner
    \/ Send
    \/ StopServer
    \/ Tick

SpecTimed == InitTimed /\ [][NextTimed]_vars

\* time is followed: producers and a thread that calls waitForMessages
InitWait ==
    /\ Construct
    /\ clientType = "Exporter"
    /\ env \in [sends : {MaxWaitSend}, peer : {0}, net : {"reliable"}, timed : {TRUE}]

NextWait ==
    \/ WorkerCore
    \/ Owner
    \/ Send
    \/ StopServer
    \/ Tick
    \/ \E t \in WaitTimeouts : WaitForMessagesCall(t)
    \/ WaitForMessagesLoop

\* the threads keep running and the clock keeps going
FairWait ==
    /\ WF_vars(WorkerCore)
    /\ WF_vars(Owner)
    /\ WF_vars(WaitForMessagesLoop)
    /\ WF_vars(Tick)

SpecWait == InitWait /\ [][NextWait]_vars /\ FairWait

\* values are written to a SerializerStream; the client is not used
InitSer ==
    /\ Construct
    /\ env \in [sends : {0}, peer : {0}, net : {"reliable"}, timed : {FALSE}]

NextSer == \E val \in SerValues : SerWrite(val)

SpecSer == InitSer /\ [][NextSer]_vars

\* a producer and a reader of the queue length on threads of their own, next to
\* the worker and the owner; the transport is reliable, delays are not followed
InitRace ==
    /\ Construct
    /\ env \in [sends : {MaxSend}, peer : {0}, net : {"reliable"}, timed : {FALSE}]

NextRace ==
    \/ WorkerCore
    \/ Owner
    \/ StopServer
    \/ SendLock
    \/ SendPush
    \/ GetOutstandingMessages

SpecRace == InitRace /\ [][NextRace]_vars

\* an owner that calls connect whenever it likes, any number of times
InitOwn ==
    /\ Construct
    /\ env \in [sends : {0}, peer : {0}, net : {"reliable", "faulty"}, timed : {FALSE}]

NextOwn ==
    \/ WorkerCore
    \/ Owner
    \/ ConnectAnytime
    \/ StopServer

SpecOwn == InitOwn /\ [][NextOwn]_vars

\* construction with a transport that may fail: the worker thread runs whenever
\* it can, and the constructing thread goes on whenever its wait lets it
InitCtor ==
    /\ Construct
    /\ env \in [sends : {0}, peer : {0}, net : {"reliable", "faulty"}, timed : {FALSE}]

NextCtor ==
    \/ WorkerCore
    \/ Owner
    \/ StopServer

FairCtor ==
    /\ WF_vars(WorkerCore)
    /\ WF_vars(ConstructorSpawn \/ ConstructorWait)

SpecCtor == InitCtor /\ [][NextCtor]_vars /\ FairCtor

\* a peer that sends envelopes and a callback that calls back into the client;
\* the worker thread, and the callback on it, run whenever they can
InitReent ==
    /\ Construct
    /\ env \in [sends : {MaxWaitSend}, peer : {MaxRecv}, net : {"reliable"}, timed : {FALSE}]

WorkerAll ==
    WorkerCore \/ WorkerReadable \/ WorkerCallbackReturns

NextReent ==
    \/ WorkerAll
    \/ CallbackSend
    \/ CallbackSetCallback
    \/ Owner
    \/ StopServer
    \/ \E cb \in Callbacks \cup {NoCallback} : SetCallback(cb)

FairReent == WF_vars(WorkerAll)

SpecReent == InitReent /\ [][NextReent]_vars /\ FairReent

\* ------------------------------------------------------------------ claims
\* the worker has ended
WorkerGone == wpc \in {"exit", "done", "joined"}

\* C1: the payloads emitted as DATA envelopes, in emission order, are a prefix of
\* the payloads in the order they were enqueued (payload k is the k-th enqueued).
\* workerSendoutMessages removes the front payload also when the send of its
\* payload part returned false, so the next payload is emitted without it.
C1_FifoPrefix == emitted = [i \in 1..Len(emitted) |-> i]

\* C2: the steady loop is entered only on a reply of this version, the own role
\* and the role's create opcode, and PING and DATA are emitted only after that;
\* after a timeout or any other reply the worker ends without entering the
\* loop, nothing of the queue is emitted or attempted, and once it has ended
\* good() is false.
C2_HandshakeSymmetry ==
    /\ steady =>
        /\ hsResult = "ok"
        /\ hsReply.size = FrameWidth
        /\ hsReply.version = ZMQ_PROTOCOL_VERSION
        /\ hsReply.type = clientType
        /\ hsReply.control = (IF clientType = "Exporter" THEN RENDERER_CREATE_MSG
                              ELSE HEARTBEAT_CREATE_MSG)
    /\ (nPing > 0 \/ emitted # <<>> \/ attempted # {} \/ wpc \in SteadyPcs) => steady
    /\ hsResult \in {"timeout", "rejected", "error"} =>
        /\ WorkerGone
        /\ ~steady
        /\ emitted = <<>> /\ attempted = {}
        /\ wpc # "exit" => ~isWorking

\* C2's case: a rejected reply with payloads queued and flushOnExit set
C2_Witness ==
    /\ hsResult = "rejected" /\ wpc = "done"
    /\ messageQue # <<>> /\ flushOnExit

\* C2's other case: the reply timed out
C2_WitnessTimeout == hsResult = "timeout" /\ wpc = "done"

\* a received envelope the callback is for: full width, this version, own role, DATA
ForCallback(m) ==
    /\ m.size = FrameWidth
    /\ m.version = ZMQ_PROTOCOL_VERSION
    /\ m.type = clientType
    /\ m.control = DATA_MSG

\* C3: in the steady loop a received envelope reaches the dispatch exactly when
\* it has the frame width, this version, the own role and opcode DATA; the
\* dispatch invokes the callback exactly when one is set; every other envelope
\* is dropped with the callback not invoked and the worker still in the loop.
C3_VersionGate ==
    [][/\ nRecv' # nRecv =>
            /\ wpc' \in SteadyPcs
            /\ (wpc' = "cb_lock") <=> ForCallback(inMsg')
            /\ delivered' = delivered /\ running' = running
       /\ delivered' # delivered =>
            /\ ForCallback(inMsg)
            /\ delivered' = Append(delivered, [msg |-> inMsg, cb |-> callback])
            /\ running' = callback
            /\ wpc' \in SteadyPcs
       /\ (running' # running /\ running' # NoCallback) => delivered' # delivered]_vars

\* C3's case: of two envelopes received one was dropped, the other went to a callback
C3_Witness ==
    /\ nRecv = 2 /\ Len(delivered) = 1
    /\ delivered[1].cb # NoCallback
    /\ wpc \in SteadyPcs

\* C4: while a callback runs the worker holds callbackMutex and the callback that
\* runs is the installed one, the one the delivery began with; a delivery begins
\* only when none runs; deliveries are in the order of arrival.
C4_AtMostOneCallback ==
    /\ wpc = "cb_run" =>
        /\ callbackMutex = "worker"
        /\ running # NoCallback
        /\ running = callback
        /\ running = delivered[Len(delivered)].cb
    /\ wpc # "cb_run" => running = NoCallback /\ callbackMutex = "free"
    /\ \A i, j \in 1..Len(delivered) : i < j => delivered[i].msg.id < delivered[j].msg.id

\* C4's case: a second delivery runs, with another callback than the first
C4_Witness ==
    /\ wpc = "cb_run" /\ Len(delivered) = 2
    /\ delivered[1].cb # NoCallback
    /\ delivered[1].cb # delivered[2].cb

\* C5: when syncStop() was called in the steady loop with flushOnExit set and
\* serverStop clear (ssMark payloads enqueued until then), then once the socket is
\* closed each of these payloads was emitted or its send attempted.
\* syncStop terminates the context right after clearing isWorking; the worker's
\* next call on the socket throws and the flush is never started.
C5_FlushOnSyncStop ==
    (ssMark >= 0 /\ flushOnExit /\ env.net = "reliable" /\ frontend = "closed")
        => \A k \in 1..ssMark : k \in attempted

\* C6: a worker that leaves the steady loop with serverStop set goes from the tail
\* straight to its end, never to the flush, and a worker that has ended emits
\* nothing more: no DATA follows the STOP, whatever flushOnExit is.
C6_StopPrecedence ==
    [][/\ (wpc = "tail" /\ serverStop) => wpc' \in {"tail", "exit"}
       /\ nStop > 0 => emitted' = emitted
       /\ WorkerGone => emitted' = emitted /\ attempted' = attempted]_vars

\* C6's case: STOP was emitted with flushOnExit set and payloads left in the queue
C6_Witness ==
    /\ nStop = 1 /\ flushOnExit /\ messageQue # <<>>
    /\ wpc = "done"

\* C7: after stopServer() was called on a client in the steady loop, with a
\* transport that accepts sends, the worker has emitted exactly one STOP with its
\* own role when it has ended.
\* A return inside the loop (the Heartbeat check, a call that throws once
\* syncStop terminated the context) skips the STOP tail.
C7_StopEmitted ==
    (stopInSteady /\ wpc \in {"done", "joined"}) => (nStop = 1 /\ stopRole = clientType)

\* C8: a Heartbeat client in the steady loop has received an envelope within
\* HEARBEAT_TIMEOUT and one step of the clock.
\* After a dropped envelope the receive loop reads again without knowing that a
\* part waits (C22), and stays in recv up to ZMQ_RCVTIMEO past the threshold.
C8_HeartbeatLiveness ==
    (clientType = "Heartbeat" /\ wpc \in SteadyPcs)
        => high_resolution_clock_now - lastRecvAt <= HEARBEAT_TIMEOUT + Quantum

C10_StartupInvariant ==
    Constructed =>
        /\ frontend # "null"
        /\ sockopt.linger = 0
        /\ sockopt.sndtimeo \in {HEARBEAT_TIMEOUT, TAIL_SNDTIMEO}

\* C10's case: the constructor has returned and connect can run
C10_Witness == upc = "idle" /\ ~startServing /\ frontend = "open" /\ wpc = "wait"

\* C11: connected() is true exactly when connect() was called and did not fail.
\* syncStop sets startServing itself (line 545), so a client that never called
\* connect reports connected() after syncStop.
C11_ConnectedIffConnect == connected <=> connectOk

InSyncStop == upc \in {"ss_grace", "ss_flags", "ss_term", "ss_join"}

\* C13: a call of syncStop returns, whatever the worker was doing, and when it
\* has returned the worker thread has ended, the socket is closed and good() is
\* false.
C13_SyncStopTerminates ==
    /\ [](upc = "stopped" => (wpc = "joined" /\ frontend = "closed" /\ ~good))
    /\ InSyncStop ~> (upc = "stopped")

\* C13's case: syncStop has returned on a client whose worker was parked, connect
\* never called
C13_Witness == upc = "stopped" /\ ~connectOk /\ ~errorConnect /\ hsResult # "ok"

\* C14: after a failed connect startServing is set all the same, connected() is
\* false, the worker never starts the handshake and emits nothing, and it goes on
\* to close the socket and clear isWorking.
C14_ConnectFailure ==
    /\ [](errorConnect =>
            /\ ~connected /\ ~connectOk
            /\ upc # "conn_signal" => startServing
            /\ wpc \in {"wait", "exit", "done", "joined"}
            /\ hsResult = "none" /\ lastOutAt = NoTime
            /\ nPing = 0 /\ nStop = 0 /\ emitted = <<>> /\ attempted = {}
            /\ wpc \in {"done", "joined"} => (frontend = "closed" /\ ~good))
    /\ (errorConnect /\ startServing) ~> (frontend = "closed" /\ ~good)

\* C14's case: the worker has ended after a failed connect, payloads queued
C14_Witness == errorConnect /\ wpc = "done" /\ messageQue # <<>> /\ serverStop

\* C15: no part the worker sends is ever out of place: every control frame is
\* followed by its payload part before the next envelope is started.
\* After a PING or DATA control frame whose payload part was refused the worker
\* sets lastHBSend (and pops the payload) as if the envelope had gone out, and
\* its next envelope starts inside the open one.
C15_FramingAtomicity == framing # "broken"

\* C16: when a worker that entered the steady loop goes to its end with
\* flushOnExit set and serverStop clear, the send of every payload still queued
\* has been attempted.
\* The returns inside the loop (poll, recv or send threw, the Heartbeat peer was
\* silent) and a setsockopt that throws in the tail go to the end without the
\* flush.
C16_FlushOnEveryStop ==
    [][(/\ steady /\ wpc \in SteadyPcs \cup {"tail"} /\ wpc' = "exit"
        /\ flushOnExit /\ ~serverStop)
          => \A k \in 1..Len(messageQue) : messageQue[k] \in attempted']_vars

\* C18: with a transport that accepts sends, the drain of one writable branch ends
\* only with the queue empty, after MAX_CONSEQ_MESSAGES payloads, or with
\* isWorking cleared.
\* workerSendoutMessages reads ZMQ_RCVMORE after each payload and leaves the loop
\* when no received part waits: as a rule one payload per writable branch.
C18_DrainBatch ==
    [][(/\ wpc = "drain" /\ wpc' = "live"
        /\ env.net = "reliable" /\ context = "open" /\ isWorking)
          => (messageQue' = <<>> \/ c >= MAX_CONSEQ_MESSAGES - 1)]_vars

\* C19: the drain removes a payload from the queue only in a step in which both
\* parts of its DATA envelope were accepted, that is, in which it is emitted.
\* pop_front runs after the send of the payload part whatever that send returned.
C19_PopOnSuccess ==
    [][(wpc = "drain" /\ Len(messageQue') < Len(messageQue))
          => emitted' = Append(emitted, Head(messageQue))]_vars

\* ---- a positional reader of a stream, given the types in write order
\* the byte at a position; a read behind the end of the stream yields 0
ByteAt(b, pos) == IF pos \in DOMAIN b THEN b[pos] ELSE 0

\* the unsigned value of the w bytes at pos, low byte first
RECURSIVE ReadScalar(_, _, _)
ReadScalar(b, pos, w) ==
    IF w = 0 THEN 0 ELSE ByteAt(b, pos) + ByteRange * ReadScalar(b, pos + 1, w - 1)

\* a count read from the stream, never more than the stream could hold
ReadCount(b, pos, w) == Min(ReadScalar(b, pos, w), Len(b) + 1)

\* a string: its length, then that many bytes
ReadString(b, pos) ==
    LET n == ReadCount(b, pos, SIZE_T_WIDTH)
    IN  [v |-> [i \in 1..n |-> ByteAt(b, pos + SIZE_T_WIDTH + i - 1)],
         next |-> pos + SIZE_T_WIDTH + n]

\* a plugin reference: two strings
ReadPlugin(b, pos) ==
    LET plugin == ReadString(b, pos)
        output == ReadString(b, plugin.next)
    IN  [v |-> <<plugin.v, output.v>>, next |-> output.next]

\* a list of ints: its count, then the elements
ReadList(b, pos) ==
    LET n == ReadCount(b, pos, INT_WIDTH)
    IN  [v |-> [i \in 1..n |-> ReadScalar(b, pos + INT_WIDTH * i, INT_WIDTH)],
         next |-> pos + INT_WIDTH + n * INT_WIDTH]

RECURSIVE ReadStrings(_, _, _)
ReadStrings(b, pos, n) ==
    IF n = 0 THEN [v |-> <<>>, next |-> pos]
    ELSE LET first == ReadString(b, pos)
             rest == ReadStrings(b, first.next, n - 1)
         IN  [v |-> <<first.v>> \o rest.v, next |-> rest.next]

\* a list of strings: its count, then the strings
ReadListString(b, pos) ==
    ReadStrings(b, pos + INT_WIDTH, ReadCount(b, pos, INT_WIDTH))

Read(t, b, pos) ==
    CASE t = "string" -> ReadString(b, pos)
      [] t = "plugin" -> ReadPlugin(b, pos)
      [] t = "list" -> ReadList(b, pos)
      [] t = "strings" -> ReadListString(b, pos)

\* the values of the given types read from pos on, and the position behind them
RECURSIVE ReadAll(_, _, _)
ReadAll(schema, b, pos) ==
    IF schema = <<>> THEN [v |-> <<>>, next |-> pos]
    ELSE LET first == Read(Head(schema), b, pos)
             rest == ReadAll(Tail(schema), b, first.next)
         IN  [v |-> <<first.v>> \o rest.v, next |-> rest.next]

\* the encoding the format gives a value: a string is its length in a platform
\* word and its bytes, a plugin reference two strings, a list its count and
\* its elements
EncString(x) == ObjectBytes(Len(x), SIZE_T_WIDTH) \o x

RECURSIVE EncStrings(_)
EncStrings(l) == IF l = <<>> THEN <<>> ELSE EncString(Head(l)) \o EncStrings(Tail(l))

Encoding(val) ==
    CASE val.t = "string" -> EncString(val.v)
      [] val.t = "plugin" -> EncString(val.v[1]) \o EncString(val.v[2])
      [] val.t = "list" -> ObjectBytes(Len(val.v), INT_WIDTH) \o ListBytes(val.v)
      [] val.t = "strings" -> ObjectBytes(Len(val.v), INT_WIDTH) \o EncStrings(val.v)

RECURSIVE Encodings(_)
Encodings(vals) ==
    IF vals = <<>> THEN <<>> ELSE Encoding(Head(vals)) \o Encodings(Tail(vals))

\* the stream is the encodings of the written values in write order, and read
\* back with the types of the written values it yields them and ends
RoundTrip ==
    LET back == ReadAll([i \in DOMAIN written |-> written[i].t], stream, 1)
    IN  /\ stream = Encodings(written)
        /\ back.v = [i \in DOMAIN written |-> written[i].v]
        /\ back.next = Len(stream) + 1

\* C17: whatever strings, plugin references, lists of ints and lists of strings
\* are written to one SerializerStream, the stream is the concatenation of
\* their encodings in write order, a write leaves the bytes already in the
\* stream as they are, and a reader that takes the stream position by position
\* with the same types gets the written values back, empty strings and empty
\* lists included.
C17_RoundTrip ==
    /\ []RoundTrip
    /\ [][SubSeq(stream', 1, Len(stream)) = stream]_vars

\* two values were written, an empty string and an empty list among them
C17_Witness ==
    /\ Len(written) = 2
    /\ \E i \in DOMAIN written : written[i].t = "string" /\ written[i].v = <<>>
    /\ \E i \in DOMAIN written : written[i].t = "strings" /\ written[i].v = <<>>
    /\ RoundTrip

\* C20: no look at the outbound queue happens while another thread is inside
\* its push: the worker's emptiness tests (before the drain and in the loop
\* condition of the drain) and the length read by getOutstandingMessages are
\* made only while no producer holds the queue mutex.
C20_QueueDiscipline ==
    [][(\/ wpc = "out" /\ wpc' = "drain"
        \/ wpc = "drain" /\ c < MAX_CONSEQ_MESSAGES /\ wpc' # wpc
        \/ outstanding' # outstanding)
          => messageMutex # "producer"]_vars

\* C21: whenever a facade thread goes into the transport socket (connect has
\* passed its setsockopt and connect calls and is about to set startServing),
\* the worker is parked before the startServing condition; the worker has not
\* started to serve and has not left.
C21_SocketOwnership ==
    [][(upc # "conn_signal" /\ upc' = "conn_signal") => wpc = "wait"]_vars

\* C22: in the steady loop the worker goes into receive for an envelope only
\* when input is known to be waiting for it: the poll of this iteration
\* reported the socket readable and nothing has been taken since, or the
\* envelope before it was followed by a continuation.
C22_NoBlindReceive ==
    [][(wpc = "rl" /\ wpc' = "recv") => pending]_vars

\* C23: the constructor returns in every execution; when it has returned
\* after the worker failed to create the socket or to set its options, the
\* worker has exited and good() is false.
C23_ConstructorTerminates ==
    /\ <>Constructed
    /\ [](Constructed => (socketInit \/ (wpc = "done" /\ ~good)))

\* the worker is inside a delivery: the callback runs, or a call it made has
\* not returned
InDelivery == wpc \in {"cb_run", "cb_blocked", "terminated"}

\* C24: a delivery in which the callback calls send or setCallback on its
\* client comes to an end: the callback returns and the worker goes on with
\* the envelope loop.
C24_ReentrantCalls == InDelivery ~> (wpc = "more")

====
